---- MODULE Spec2Model ----
(***************************************************************************)
(* Model of src/program.py: a converter between JSON, YAML and XML.        *)
(*                                                                         *)
(* Python objects are records tagged by the field k:                       *)
(*   None  [k |-> "none"]            bool [k |-> "bool", v |-> TRUE]       *)
(*   int   [k |-> "int",  v |-> 1]   str  [k |-> "str",  v |-> <<"a">>]    *)
(*   date  [k |-> "date", v |-> <<y, m, d>>]   (yaml.safe_load only)       *)
(*   list  [k |-> "list", v |-> <<o1, o2>>]                                *)
(*   dict  [k |-> "dict", v |-> << <<key, o1>>, ... >>]  insertion order   *)
(*   ET.Element [k |-> "elem", tag, attrib, children, text]                *)
(* A Python string is the sequence of its characters; an Element's text is *)
(* <<>> for None and <<s>> for the string s.                               *)
(***************************************************************************)
EXTENDS Integers, Sequences, FiniteSets, TLC

VARIABLES
    pc,                  \* position of the conversion run / of the call
    mode,                \* "gui": ConverterWorker.run, "cli": __main__
    input_format,        \* self.input_format / parsed_args['input_format']
    output_format,       \* self.output_format / parsed_args['output_format']
    infile,              \* the file at input_path, as its parser sees it
    outfile,             \* the file at output_path: <<>> absent, <<text>> present
    input_data,          \* result of read_and_validate_data
    data_for_conversion, \* the generic value handed to the writer
    write_success,       \* the writer's return value
    writers,             \* the writers invoked so far, in order
    serialized,          \* the element tree handed to ET.tostring, if any
    finished,            \* finished signals emitted (gui): <<success>> each
    exit_code,           \* sys.exit code (cli): <<>> while running
    call_tag,            \* argument tag of a direct call
    call_arg,            \* argument element / value of a direct call
    call_ret,            \* <<>> before the call returns, <<result>> after
    convert_btn,         \* self.convert_btn.isEnabled()
    clicks,              \* clicks on the convert button not yet dispatched
    clicked,             \* clicks made so far
    signals,             \* worker signals queued for the main thread
    stack,               \* handlers active in the main thread, innermost last
    workers,             \* every ConverterWorker created, in order
    worker,              \* self.worker: index into workers, 0 before the first
    crashed              \* the process was aborted by Qt

vars == <<pc, mode, input_format, output_format, infile, outfile, input_data,
          data_for_conversion, write_success, writers, serialized, finished,
          exit_code, call_tag, call_arg, call_ret, convert_btn, clicks, clicked,
          signals, stack, workers, worker, crashed>>

guiVars == <<convert_btn, clicks, clicked, signals, stack, workers, worker, crashed>>

conversionVars == <<pc, mode, input_format, output_format, infile, outfile,
                    input_data, data_for_conversion, write_success, writers,
                    serialized, finished, exit_code, call_tag, call_arg, call_ret>>

runVars == <<mode, input_format, output_format, infile, outfile, input_data,
             data_for_conversion, write_success, writers, serialized, finished,
             exit_code>>

----------------------------------------------------------------------------
(* Bounds of the model.                                                    *)

\* Nodes of an input element tree: elements, attributes and texts count 1.
MaxElemNodes == 5
\* Nodes of a value handed to the encoder: scalars, lists, dicts count 1.
MaxValueNodes == 3
\* Nodes of the document in the input file of a conversion run.
MaxFileNodes == 2
\* Characters of a tag handed to the encoder directly.
MaxTagLen == 2
\* Clicks on the convert button in one session of the desktop application.
MaxClicks == 2

----------------------------------------------------------------------------
(* Python objects.                                                         *)

None == [k |-> "none"]
PyBool(b) == [k |-> "bool", v |-> b]
PyInt(n) == [k |-> "int", v |-> n]
PyStr(s) == [k |-> "str", v |-> s]
\* datetime.date(y, m, d)
PyDate(y, m, d) == [k |-> "date", v |-> <<y, m, d>>]
PyList(items) == [k |-> "list", v |-> items]
PyDict(entries) == [k |-> "dict", v |-> entries]

\* ET.Element(tag): no attributes, no children, text None.
Element(tag) ==
    [k |-> "elem", tag |-> tag, attrib |-> <<>>, children |-> <<>>, text |-> <<>>]

\* ET.SubElement(parent, tag) followed by child.text = text, and
\* parent.append(child): the parent with the child as its last child.
Append_child(parent, child) ==
    [parent EXCEPT !.children = Append(@, child)]

Leaf(tag, text) == [Element(tag) EXCEPT !.text = <<text>>]

isinstance(o, kinds) == o.k \in kinds

----------------------------------------------------------------------------
(* Strings.                                                                *)

Whitespace == {" ", "\n", "\t"}

RECURSIVE lstrip(_)
lstrip(s) ==
    IF s # <<>> /\ Head(s) \in Whitespace THEN lstrip(Tail(s)) ELSE s

RECURSIVE rstrip(_)
rstrip(s) ==
    IF s # <<>> /\ s[Len(s)] \in Whitespace
    THEN rstrip(SubSeq(s, 1, Len(s) - 1))
    ELSE s

\* str.strip()
strip(s) == rstrip(lstrip(s))

\* str.endswith(c) for a one-character suffix
endswith(s, c) == s # <<>> /\ s[Len(s)] = c

Digit == <<"0", "1", "2", "3", "4", "5", "6", "7", "8", "9">>

\* str(n) for an int n >= 0
RECURSIVE DecStr(_)
DecStr(n) ==
    IF n < 10 THEN <<Digit[n + 1]>> ELSE DecStr(n \div 10) \o <<Digit[(n % 10) + 1]>>

IntStr(n) == IF n < 0 THEN <<"-">> \o DecStr(-n) ELSE DecStr(n)

\* n in decimal, zero-padded on the left to w digits
RECURSIVE Padded(_, _)
Padded(n, w) == IF Len(DecStr(n)) >= w THEN DecStr(n) ELSE <<"0">> \o Padded(n, w - 1)

\* ", ".join(parts)
RECURSIVE join(_)
join(parts) ==
    IF parts = <<>> THEN <<>>
    ELSE IF Len(parts) = 1 THEN parts[1]
    ELSE parts[1] \o <<",", " ">> \o join(Tail(parts))

\* repr(o): a string in quotes, a container by the repr of its parts.
\* (The strings of the model hold no quote, backslash or control character
\* other than the whitespace of Texts, which no repr is taken of.)
RECURSIVE repr(_)
repr(o) ==
    CASE o.k = "none" -> <<"N", "o", "n", "e">>
      [] o.k = "bool" -> IF o.v THEN <<"T", "r", "u", "e">> ELSE <<"F", "a", "l", "s", "e">>
      [] o.k = "int" -> IntStr(o.v)
      [] o.k = "str" -> <<"'">> \o o.v \o <<"'">>
      [] o.k = "date" ->
             <<"d", "a", "t", "e", "t", "i", "m", "e", ".", "d", "a", "t", "e", "(">>
             \o IntStr(o.v[1]) \o <<",", " ">> \o IntStr(o.v[2]) \o <<",", " ">>
             \o IntStr(o.v[3]) \o <<")">>
      [] o.k = "list" ->
             <<"[">> \o join([i \in 1..Len(o.v) |-> repr(o.v[i])]) \o <<"]">>
      [] o.k = "dict" ->
             <<"{">>
             \o join([i \in 1..Len(o.v) |->
                        repr(PyStr(o.v[i][1])) \o <<":", " ">> \o repr(o.v[i][2])])
             \o <<"}">>

\* str(o): a string is itself, a date is in ISO form, the rest as repr.
str(o) ==
    CASE o.k = "str" -> o.v
      [] o.k = "date" ->
             Padded(o.v[1], 4) \o <<"-">> \o Padded(o.v[2], 2) \o <<"-">> \o Padded(o.v[3], 2)
      [] OTHER -> repr(o)

----------------------------------------------------------------------------
(* dict operations (insertion-ordered, unique keys).                       *)

HasKey(d, key) == \E i \in 1..Len(d) : d[i][1] = key

KeyIndex(d, key) == CHOOSE i \in 1..Len(d) : d[i][1] = key

\* d[key]
Get(d, key) == d[KeyIndex(d, key)][2]

\* d[key] = val: replaces in place, or inserts last
Set(d, key, val) ==
    IF HasKey(d, key)
    THEN [d EXCEPT ![KeyIndex(d, key)] = <<key, val>>]
    ELSE Append(d, <<key, val>>)

\* result.update(element.attrib): attribute values are Python strings
RECURSIVE update(_, _)
update(d, attrib) ==
    IF attrib = <<>> THEN d
    ELSE update(Set(d, Head(attrib)[1], PyStr(Head(attrib)[2])), Tail(attrib))

----------------------------------------------------------------------------
(* XML-to-value decoder.                                                   *)

\* The body of the loop over children, after the recursive call: a repeated
\* key is promoted to a list and appended to, a new key is inserted.
merge_child(result, tag, child_data) ==
    IF HasKey(result, tag)
    THEN LET cur == Get(result, tag)
             lst == IF ~isinstance(cur, {"list"}) THEN PyList(<<cur>>) ELSE cur
         IN  Set(result, tag, PyList(Append(lst.v, child_data)))
    ELSE Set(result, tag, child_data)

\* text_step without the test that nothing else was collected.
text_step_always_bare(element, result) ==
    IF element.text # <<>> /\ element.text[1] # <<>> /\ strip(element.text[1]) # <<>>
    THEN PyStr(strip(element.text[1]))
    ELSE PyDict(result)

\* The text step: a non-blank text is returned bare when nothing else was
\* collected, and stored under '#text' otherwise.
text_step(element, result) ==
    IF element.text # <<>> /\ element.text[1] # <<>> /\ strip(element.text[1]) # <<>>
    THEN LET text_content == strip(element.text[1])
         IN  IF result = <<>> /\ element.attrib = <<>>
             THEN PyStr(text_content)
             ELSE PyDict(Set(result, <<"#", "t", "e", "x", "t">>, PyStr(text_content)))
    ELSE PyDict(result)

RECURSIVE convert_xml_to_dict(_)
RECURSIVE fold_children(_, _)

\* for child in element: ... over the children not yet visited
fold_children(result, children) ==
    IF children = <<>> THEN result
    ELSE fold_children(
             merge_child(result, Head(children).tag, convert_xml_to_dict(Head(children))),
             Tail(children))

convert_xml_to_dict(element) ==
    text_step(element, fold_children(update(<<>>, element.attrib), element.children))

----------------------------------------------------------------------------
(* Input domains: element trees by number of nodes.                        *)

ElemTags == {<<"a">>, <<"b">>}
AttrNames == {<<"a">>, <<"c">>}
AttrValues == {<<"v">>}
Texts == {<<" ">>, <<" ", "x", "\n">>}

\* Attribute lists of a attributes, names distinct, in document order.
AttribSeqs(a) ==
    {s \in [1..a -> AttrNames \X AttrValues] :
        \A i, j \in 1..a : i # j => s[i][1] # s[j][1]}

TextOptions(t) == IF t = 0 THEN {<<>>} ELSE {<<s>> : s \in Texts}

\* The union of F(lo), ..., F(hi).
RECURSIVE CupOver(_, _, _)
CupOver(F(_), lo, hi) == IF lo > hi THEN {} ELSE F(lo) \cup CupOver(F, lo + 1, hi)

RECURSIVE ElementsOfSize(_)
RECURSIVE ChildSeqs(_)

\* Sequences of elements with c nodes in total.
ChildSeqs(c) ==
    IF c = 0 THEN {<<>>}
    ELSE CupOver(LAMBDA j : {<<e>> \o rest : e \in ElementsOfSize(j),
                                             rest \in ChildSeqs(c - j)}, 1, c)

\* Elements with n nodes: the element, its attributes, its text, its descendants.
ElementsOfSize(n) ==
    CupOver(LAMBDA a :
        CupOver(LAMBDA t :
            {[k |-> "elem", tag |-> tag, attrib |-> attrib, children |-> children,
              text |-> text] :
                tag \in ElemTags, attrib \in AttribSeqs(a), text \in TextOptions(t),
                children \in IF n - 1 - a - t < 0 THEN {} ELSE ChildSeqs(n - 1 - a - t)},
            0, 1),
        0, n - 1)

ElementsUpTo(n) == CupOver(ElementsOfSize, 1, n)

Elements == ElementsUpTo(MaxElemNodes)

----------------------------------------------------------------------------
(* Direct calls of the two transforms.                                     *)

\* The variables of a conversion run, unused by a direct call.
NoRun ==
    /\ mode = "call"
    /\ input_format = "none"
    /\ output_format = "none"
    /\ infile = <<>>
    /\ outfile = <<>>
    /\ input_data = None
    /\ data_for_conversion = None
    /\ write_success = FALSE
    /\ writers = <<>>
    /\ serialized = <<>>
    /\ finished = <<>>
    /\ exit_code = <<>>

\* The window as DataConverterApp.__init__ leaves it, no click made.
NoGui ==
    /\ convert_btn = TRUE
    /\ clicks = 0
    /\ clicked = 0
    /\ signals = <<>>
    /\ stack = <<>>
    /\ workers = <<>>
    /\ worker = 0
    /\ crashed = FALSE

InitDecode ==
    /\ pc = "call"
    /\ call_tag = <<>>
    /\ call_arg \in Elements
    /\ call_ret = <<>>
    /\ NoRun
    /\ NoGui

\* convert_xml_to_dict(call_arg) is called and returns.
DecodeCall ==
    /\ pc = "call"
    /\ call_ret' = <<convert_xml_to_dict(call_arg)>>
    /\ pc' = "returned"
    /\ UNCHANGED <<call_tag, call_arg>>
    /\ UNCHANGED runVars
    /\ UNCHANGED guiVars

NextDecode == DecodeCall

SpecDecode == InitDecode /\ [][NextDecode]_vars

----------------------------------------------------------------------------
(* Claims about the decoder (checked under SpecDecode).                    *)

\* The text of s between its first and its last non-whitespace character.
Trimmed(s) ==
    LET idx == {i \in 1..Len(s) : s[i] \notin Whitespace}
    IN  IF idx = {} THEN <<>>
        ELSE SubSeq(s, CHOOSE i \in idx : \A j \in idx : i <= j,
                       CHOOSE i \in idx : \A j \in idx : i >= j)

\* The trimmed text of an element, <<>> when it has no text at all.
TrimmedText(e) == IF e.text = <<>> THEN <<>> ELSE Trimmed(e.text[1])

ChildrenTagged(e, t) == SelectSeq(e.children, LAMBDA c : c.tag = t)

Decoded(children) == [i \in 1..Len(children) |-> convert_xml_to_dict(children[i])]

\* C1: for every element passed to convert_xml_to_dict and every tag t, when
\* exactly one child has tag t the returned mapping holds that child's decoded
\* value itself under t, and when n >= 2 children have tag t it holds the list
\* of exactly those n decoded values in document order.
C1_RepeatedTagsCollapse ==
    pc = "returned" =>
        \A t \in ElemTags :
            LET same == ChildrenTagged(call_arg, t)
                r == call_ret[1]
            IN  /\ Len(same) = 1 =>
                       /\ r.k = "dict"
                       /\ HasKey(r.v, t)
                       /\ Get(r.v, t) = convert_xml_to_dict(same[1])
                /\ Len(same) >= 2 =>
                       /\ r.k = "dict"
                       /\ HasKey(r.v, t)
                       /\ Get(r.v, t) = PyList(Decoded(same))

\* C2: convert_xml_to_dict returns the trimmed text as a bare string exactly
\* when the element has no attributes, no children and a non-empty trimmed
\* text; every other element yields a mapping, empty when the element has no
\* attributes, no children and no text; the result is never None.
C2_TextLeafCollapse ==
    pc = "returned" =>
        LET e == call_arg
            r == call_ret[1]
            bare == e.attrib = <<>> /\ e.children = <<>>
        IN  /\ r.k \in {"str", "dict"}
            /\ r.k = "str" <=> (bare /\ TrimmedText(e) # <<>>)
            /\ r.k = "str" => r.v = TrimmedText(e)
            /\ (bare /\ TrimmedText(e) = <<>>) => r = PyDict(<<>>)

\* A text-only element with surrounding whitespace came back as a bare string.
C2_Witness ==
    /\ pc = "returned"
    /\ call_arg.attrib = <<>>
    /\ call_arg.children = <<>>
    /\ call_arg.text = << <<" ", "x", "\n">> >>
    /\ call_ret = <<PyStr(<<"x">>)>>

----------------------------------------------------------------------------
(* Value-to-XML encoder.                                                   *)

\* item_tag = tag[:-1] if tag.endswith('s') and len(tag) > 1 else "item"
item_tag_no_length_test(tag) ==
    IF endswith(tag, "s") THEN SubSeq(tag, 1, Len(tag) - 1) ELSE <<"i", "t", "e", "m">>

item_tag(tag) ==
    IF endswith(tag, "s") /\ Len(tag) > 1
    THEN SubSeq(tag, 1, Len(tag) - 1)
    ELSE <<"i", "t", "e", "m">>

RECURSIVE convert_dict_to_xml_element(_, _)
RECURSIVE encode_entries(_, _)
RECURSIVE encode_items(_, _, _)

\* for key, val in d.items(): a dict or list value is encoded recursively
\* under its key, any other value becomes a leaf with text str(val).
\* (The same loop is written out for the entries of a dict item of a list.)
encode_entries(elem, entries) ==
    IF entries = <<>> THEN elem
    ELSE LET key == Head(entries)[1]
             val == Head(entries)[2]
             child == IF isinstance(val, {"dict", "list"})
                      THEN convert_dict_to_xml_element(key, val)
                      ELSE Leaf(key, str(val))
         IN  encode_entries(Append_child(elem, child), Tail(entries))

\* for item in d: a dict item becomes an element of its entries, any other
\* item (a list too) becomes a leaf with text str(item).
encode_items(elem, tag, items) ==
    IF items = <<>> THEN elem
    ELSE LET item == Head(items)
             child == IF isinstance(item, {"dict"})
                      THEN encode_entries(Element(item_tag(tag)), item.v)
                      ELSE Leaf(item_tag(tag), str(item))
         IN  encode_items(Append_child(elem, child), tag, Tail(items))

convert_dict_to_xml_element(tag, d) ==
    IF isinstance(d, {"dict"}) THEN encode_entries(Element(tag), d.v)
    ELSE IF isinstance(d, {"list"}) THEN encode_items(Element(tag), tag, d.v)
    ELSE Leaf(tag, str(d))

----------------------------------------------------------------------------
(* Input domains: values by number of nodes.                               *)

Keys == {<<"a">>, <<"a", "s">>}
JsonScalars == {None, PyBool(TRUE), PyBool(FALSE), PyInt(12), PyStr(<<"x">>)}
YamlScalars == JsonScalars \cup {PyDate(2001, 2, 3)}
TagChars == {"a", "s"}

RECURSIVE ValuesOfSize(_, _)
RECURSIVE ItemSeqs(_, _)
RECURSIVE EntrySeqs(_, _)

\* Item lists in which the items have c nodes in total.
ItemSeqs(scalars, c) ==
    IF c = 0 THEN {<<>>}
    ELSE CupOver(LAMBDA j : {<<v>> \o rest : v \in ValuesOfSize(scalars, j),
                                             rest \in ItemSeqs(scalars, c - j)}, 1, c)

\* Entry lists of a dict in which the values have c nodes in total; keys
\* distinct, in insertion order.
EntrySeqs(scalars, c) ==
    IF c = 0 THEN {<<>>}
    ELSE CupOver(LAMBDA j :
             {e \in {<< <<key, v>> >> \o rest :
                       key \in Keys, v \in ValuesOfSize(scalars, j),
                       rest \in EntrySeqs(scalars, c - j)} :
                 \A i \in 2..Len(e) : e[i][1] # e[1][1]}, 1, c)

\* Values with n nodes: a scalar, or a list or dict and its parts.
ValuesOfSize(scalars, n) ==
    (IF n = 1 THEN scalars ELSE {})
    \cup {PyList(items) : items \in ItemSeqs(scalars, n - 1)}
    \cup {PyDict(entries) : entries \in EntrySeqs(scalars, n - 1)}

ValuesUpTo(scalars, n) == CupOver(LAMBDA m : ValuesOfSize(scalars, m), 1, n)

Values == ValuesUpTo(JsonScalars, MaxValueNodes)

\* Tags of at most MaxTagLen characters.
Tags == UNION {[1..n -> TagChars] : n \in 1..MaxTagLen}

InitEncode ==
    /\ pc = "call"
    /\ call_arg \in Values
    /\ call_tag \in Tags
    /\ call_ret = <<>>
    /\ NoRun
    /\ NoGui

\* convert_dict_to_xml_element(call_tag, call_arg) is called and returns.
EncodeCall ==
    /\ pc = "call"
    /\ call_ret' = <<convert_dict_to_xml_element(call_tag, call_arg)>>
    /\ pc' = "returned"
    /\ UNCHANGED <<call_tag, call_arg>>
    /\ UNCHANGED runVars
    /\ UNCHANGED guiVars

NextEncode == EncodeCall

SpecEncode == InitEncode /\ [][NextEncode]_vars

----------------------------------------------------------------------------
(* Claims about the encoder (checked under SpecEncode).                    *)

Scalar(o) == o.k \notin {"dict", "list", "elem"}

\* The item tag the singularization rule asks for.
SingularOf(tag) ==
    IF Len(tag) > 1 /\ tag[Len(tag)] = "s"
    THEN [i \in 1..(Len(tag) - 1) |-> tag[i]]
    ELSE <<"i", "t", "e", "m">>

\* C3: for every tag and every list encoded by convert_dict_to_xml_element,
\* every child of the result carries the item tag (the tag without its final
\* "s" when it ends in "s" and is longer than one character, "item"
\* otherwise), and the children are as many as the items, in their order.
C3_ItemTags ==
    (pc = "returned" /\ call_arg.k = "list") =>
        LET elem == call_ret[1]
            items == call_arg.v
        IN  /\ elem.tag = call_tag
            /\ Len(elem.children) = Len(items)
            /\ \A i \in 1..Len(items) :
                   /\ elem.children[i].tag = SingularOf(call_tag)
                   /\ Scalar(items[i]) => elem.children[i].text = <<str(items[i])>>
                   /\ items[i].k = "dict" =>
                          /\ Len(elem.children[i].children) = Len(items[i].v)
                          /\ \A e \in 1..Len(items[i].v) :
                                 elem.children[i].children[e].tag = items[i].v[e][1]

\* A list under the one-letter tag "s" and a list under "as" were encoded.
C3_Witness ==
    /\ pc = "returned"
    /\ call_arg.k = "list"
    /\ Len(call_arg.v) = 2
    /\ call_arg.v[1] # call_arg.v[2]
    /\ call_tag = <<"a", "s">>
    /\ call_ret[1].children[1].tag = <<"a">>
    /\ call_ret[1].children[2].tag = <<"a">>

\* C4: every item of a list, whatever its variant, is encoded recursively
\* under the item tag: the child for item x is the element the encoder
\* produces for (item tag, x).
C4_ItemsEncodedRecursively ==
    (pc = "returned" /\ call_arg.k = "list") =>
        \A i \in 1..Len(call_arg.v) :
            call_ret[1].children[i] =
                convert_dict_to_xml_element(SingularOf(call_tag), call_arg.v[i])

\* The text the claim gives a scalar: "true"/"false" for a bool, decimal for
\* an int, the string itself for a string.
StringForm(o) ==
    CASE o.k = "bool" -> IF o.v THEN <<"t", "r", "u", "e">> ELSE <<"f", "a", "l", "s", "e">>
      [] o.k = "int" -> IntStr(o.v)
      [] o.k = "str" -> o.v

HasStringForm(o) == o.k \in {"bool", "int", "str"}

IsLeaf(elem, tag, text) ==
    /\ elem.tag = tag
    /\ elem.attrib = <<>>
    /\ elem.children = <<>>
    /\ elem.text = <<text>>

\* C5: every scalar encoded by convert_dict_to_xml_element, as the value
\* itself, as a dict entry or as a list item, becomes a leaf whose text is its
\* string form: "true"/"false" for a bool, the string itself for a string.
C5_ScalarStringForm ==
    pc = "returned" =>
        LET elem == call_ret[1]
            d == call_arg
        IN  /\ HasStringForm(d) => IsLeaf(elem, call_tag, StringForm(d))
            /\ d.k = "dict" =>
                   \A i \in 1..Len(d.v) :
                       HasStringForm(d.v[i][2]) =>
                           IsLeaf(elem.children[i], d.v[i][1], StringForm(d.v[i][2]))
            /\ d.k = "list" =>
                   \A i \in 1..Len(d.v) :
                       HasStringForm(d.v[i]) =>
                           IsLeaf(elem.children[i], SingularOf(call_tag), StringForm(d.v[i]))

----------------------------------------------------------------------------
(* json.dump(data, f, indent=4, ensure_ascii=False).                       *)

RECURSIVE Spaces(_)
Spaces(n) == IF n <= 0 THEN <<>> ELSE <<" ">> \o Spaces(n - 1)

\* '\n' followed by the indentation of a nesting level
newline_indent(level) == <<"\n">> \o Spaces(4 * level)

\* The JSON form of a string. (The strings of the model need no escape.)
json_string(chars) == <<"\"">> \o chars \o <<"\"">>

\* The chunks the encoder yields for o at a nesting level, joined, up to the
\* first object it cannot serialize: [text, ok], ok = FALSE when TypeError
\* was raised after text.
RECURSIVE iterencode(_, _)
RECURSIVE iterencode_list(_, _, _)
RECURSIVE iterencode_dict(_, _, _)

\* The items from the i-th on, each but the first after ',' and a new line.
iterencode_list(items, i, level) ==
    IF i > Len(items) THEN [text |-> newline_indent(level - 1) \o <<"]">>, ok |-> TRUE]
    ELSE LET sep == IF i = 1 THEN <<>> ELSE <<",">> \o newline_indent(level)
             item == iterencode(items[i], level)
         IN  IF ~item.ok THEN [text |-> sep \o item.text, ok |-> FALSE]
             ELSE LET rest == iterencode_list(items, i + 1, level)
                  IN  [text |-> sep \o item.text \o rest.text, ok |-> rest.ok]

\* The entries from the i-th on: key, ': ', value.
iterencode_dict(entries, i, level) ==
    IF i > Len(entries) THEN [text |-> newline_indent(level - 1) \o <<"}">>, ok |-> TRUE]
    ELSE LET sep == IF i = 1 THEN <<>> ELSE <<",">> \o newline_indent(level)
             key == json_string(entries[i][1]) \o <<":", " ">>
             val == iterencode(entries[i][2], level)
         IN  IF ~val.ok THEN [text |-> sep \o key \o val.text, ok |-> FALSE]
             ELSE LET rest == iterencode_dict(entries, i + 1, level)
                  IN  [text |-> sep \o key \o val.text \o rest.text, ok |-> rest.ok]

iterencode(o, level) ==
    CASE o.k = "none" -> [text |-> <<"n", "u", "l", "l">>, ok |-> TRUE]
      [] o.k = "bool" -> [text |-> IF o.v THEN <<"t", "r", "u", "e">> ELSE <<"f", "a", "l", "s", "e">>, ok |-> TRUE]
      [] o.k = "int" -> [text |-> IntStr(o.v), ok |-> TRUE]
      [] o.k = "str" -> [text |-> json_string(o.v), ok |-> TRUE]
      [] o.k = "list" ->
             IF o.v = <<>> THEN [text |-> <<"[", "]">>, ok |-> TRUE]
             ELSE LET body == iterencode_list(o.v, 1, level + 1)
                  IN  [text |-> <<"[">> \o newline_indent(level + 1) \o body.text,
                       ok |-> body.ok]
      [] o.k = "dict" ->
             IF o.v = <<>> THEN [text |-> <<"{", "}">>, ok |-> TRUE]
             ELSE LET body == iterencode_dict(o.v, 1, level + 1)
                  IN  [text |-> <<"{">> \o newline_indent(level + 1) \o body.text,
                       ok |-> body.ok]
      [] OTHER -> [text |-> <<>>, ok |-> FALSE]

\* write_data_to_json: the file is opened for writing (and so emptied), then
\* the chunks are written as they are yielded; [ret, file].
write_data_to_json(data, file) ==
    LET dumped == iterencode(data, 0)
    IN  [ret |-> dumped.ok, file |-> <<dumped.text>>]

----------------------------------------------------------------------------
(* ET.tostring, minidom.parseString and toprettyxml(indent="  ").          *)

NameStartChars ==
    {"a", "b", "c", "e", "i", "m", "o", "r", "s", "t", "x", "_", ":"}
NameChars == NameStartChars \cup {"0", "1", "2", "3", "4", "5", "6", "7", "8", "9", "-", "."}

\* Whether minidom.parseString accepts the name that ET.tostring wrote.
WellFormedName(name) ==
    /\ name # <<>>
    /\ name[1] \in NameStartChars
    /\ \A i \in 1..Len(name) : name[i] \in NameChars

RECURSIVE WellFormed(_)
WellFormed(elem) ==
    /\ WellFormedName(elem.tag)
    /\ \A i \in 1..Len(elem.attrib) : WellFormedName(elem.attrib[i][1])
    /\ \A i \in 1..Len(elem.children) : WellFormed(elem.children[i])

\* ' name="value"' for each attribute
RECURSIVE attributes_xml(_)
attributes_xml(attrib) ==
    IF attrib = <<>> THEN <<>>
    ELSE <<" ">> \o Head(attrib)[1] \o <<"=", "\"">> \o Head(attrib)[2] \o <<"\"">>
         \o attributes_xml(Tail(attrib))

\* Element.writexml(writer, indent, addindent="  ", newl="\n"): an element
\* without content is '<tag/>', one whose only content is text keeps it on
\* the line, any other content goes on lines of its own, indented.
\* (The texts of the model hold none of & < > and need no escape.)
RECURSIVE writexml(_, _)
RECURSIVE writexml_children(_, _)

writexml_children(children, indent) ==
    IF children = <<>> THEN <<>>
    ELSE writexml(Head(children), indent) \o writexml_children(Tail(children), indent)

writexml(elem, indent) ==
    LET has_text == elem.text # <<>> /\ elem.text[1] # <<>>
        open == Spaces(indent) \o <<"<">> \o elem.tag \o attributes_xml(elem.attrib)
        close == <<"<", "/">> \o elem.tag \o <<">", "\n">>
    IN  IF ~has_text /\ elem.children = <<>> THEN open \o <<"/", ">", "\n">>
        ELSE IF elem.children = <<>> THEN open \o <<">">> \o elem.text[1] \o close
        ELSE open \o <<">", "\n">>
             \o (IF has_text THEN Spaces(indent + 2) \o elem.text[1] \o <<"\n">> ELSE <<>>)
             \o writexml_children(elem.children, indent + 2)
             \o Spaces(indent) \o close

toprettyxml(root) == <<"<", "?", "x", "m", "l", " ", "v", "e", "r", "s", "i", "o", "n", "=", "\"", "1", ".", "0", "\"", " ", "?", ">", "\n">> \o writexml(root, 0)

\* root = ET.Element("root"); for item in data: root.append(encode("item", item))
RECURSIVE append_items(_, _)
append_items(root, items) ==
    IF items = <<>> THEN root
    ELSE append_items(
             Append_child(root, convert_dict_to_xml_element(<<"i", "t", "e", "m">>, Head(items))),
             Tail(items))

\* The root write_data_to_xml builds: <<root>>, or <<>> when no branch binds
\* it (data is no Element, dict or list) and its first use raises.
xml_root(data) ==
    IF isinstance(data, {"elem"}) THEN <<data>>
    ELSE IF isinstance(data, {"dict"})
    THEN <<convert_dict_to_xml_element(<<"r", "o", "o", "t">>, data)>>
    ELSE IF isinstance(data, {"list"})
    THEN <<append_items(Element(<<"r", "o", "o", "t">>), data.v)>>
    ELSE <<>>

\* write_data_to_xml: the tree is built, serialized, parsed back and printed
\* in memory; only then is the file opened and written. An exception on the
\* way returns False; [ret, file, root].
write_data_to_xml(data, file) ==
    LET root == xml_root(data)
    IN  IF root = <<>> THEN [ret |-> FALSE, file |-> file, root |-> <<>>]
        ELSE IF ~WellFormed(root[1]) THEN [ret |-> FALSE, file |-> file, root |-> root]
        ELSE [ret |-> TRUE, file |-> <<toprettyxml(root[1])>>, root |-> root]

----------------------------------------------------------------------------
(* yaml.dump(data, f, allow_unicode=True, default_flow_style=False,        *)
(* sort_keys=False).                                                       *)

Digits == {"0", "1", "2", "3", "4", "5", "6", "7", "8", "9"}

\* Characters a plain scalar may not start with.
YamlIndicators ==
    {"#", "-", "?", ":", ",", "[", "]", "{", "}", "&", "*", "!", "|", ">", "'", "%", " "}

\* Whether a string can be written plain: it is not empty, does not start
\* with an indicator or end with a space, and would not be read back as an
\* int, a bool or null. (The strings of the model hold no ': ' or ' #'.)
yaml_plain(chars) ==
    /\ chars # <<>>
    /\ chars[1] \notin YamlIndicators
    /\ chars[Len(chars)] # " "
    /\ \E i \in 1..Len(chars) : chars[i] \notin Digits
    /\ chars \notin {<<"n", "u", "l", "l">>, <<"t", "r", "u", "e">>, <<"f", "a", "l", "s", "e">>}

yaml_string(chars) == IF yaml_plain(chars) THEN chars ELSE <<"'">> \o chars \o <<"'">>

\* A scalar, an empty list or an empty dict, written on the line.
yaml_inline(o) ==
    CASE o.k = "none" -> <<"n", "u", "l", "l">>
      [] o.k = "bool" -> IF o.v THEN <<"t", "r", "u", "e">> ELSE <<"f", "a", "l", "s", "e">>
      [] o.k = "int" -> IntStr(o.v)
      [] o.k = "date" -> str(o)
      [] o.k = "str" -> yaml_string(o.v)
      [] o.k = "list" -> <<"[", "]">>
      [] o.k = "dict" -> <<"{", "}">>

yaml_block(o) == o.k \in {"list", "dict"} /\ o.v # <<>>

\* A non-empty dict or list in block style at an indentation; the
\* indentation of the first line is already written.
RECURSIVE yaml_mapping(_, _, _)
RECURSIVE yaml_sequence(_, _, _)

\* The entries from the i-th on. A nested mapping is indented by two, a
\* nested sequence is not indented.
yaml_mapping(entries, i, indent) ==
    IF i > Len(entries) THEN <<>>
    ELSE LET val == entries[i][2]
         IN  (IF i = 1 THEN <<>> ELSE Spaces(indent))
             \o yaml_string(entries[i][1]) \o <<":">>
             \o (IF ~yaml_block(val) THEN <<" ">> \o yaml_inline(val) \o <<"\n">>
                 ELSE IF val.k = "dict"
                 THEN <<"\n">> \o Spaces(indent + 2) \o yaml_mapping(val.v, 1, indent + 2)
                 ELSE <<"\n">> \o Spaces(indent) \o yaml_sequence(val.v, 1, indent))
             \o yaml_mapping(entries, i + 1, indent)

\* The items from the i-th on, each after '- '.
yaml_sequence(items, i, indent) ==
    IF i > Len(items) THEN <<>>
    ELSE LET item == items[i]
         IN  (IF i = 1 THEN <<>> ELSE Spaces(indent))
             \o <<"-", " ">>
             \o (IF ~yaml_block(item) THEN yaml_inline(item) \o <<"\n">>
                 ELSE IF item.k = "dict" THEN yaml_mapping(item.v, 1, indent + 2)
                 ELSE yaml_sequence(item.v, 1, indent + 2))
             \o yaml_sequence(items, i + 1, indent)

\* The document: a plain scalar at the root is followed by the '...' line.
yaml_dump(data) ==
    IF yaml_block(data)
    THEN IF data.k = "dict" THEN yaml_mapping(data.v, 1, 0) ELSE yaml_sequence(data.v, 1, 0)
    ELSE yaml_inline(data) \o <<"\n">>
         \o (IF data.k \in {"list", "dict"} \/ (data.k = "str" /\ ~yaml_plain(data.v))
             THEN <<>>
             ELSE <<".", ".", ".", "\n">>)

\* write_data_to_yaml: the file is opened for writing (and so emptied), then
\* the document is dumped into it; the Dumper represents every object of the
\* model; [ret, file].
write_data_to_yaml(data, file) == [ret |-> TRUE, file |-> <<yaml_dump(data)>>]

----------------------------------------------------------------------------
(* A conversion run: ConverterWorker.run (mode "gui") and the command-line *)
(* path of __main__ (mode "cli"). Both receive formats among json, xml and *)
(* yaml (the combo boxes and parse_arguments offer no other) and a         *)
(* writable output path.                                                   *)

Formats == {"json", "xml", "yaml"}

\* What the parser of a format finds in the input file: a document, or one
\* of the failures read_and_validate_data handles.
ReadFailures == {"missing", "undecodable", "malformed"}

FileDocs(format) ==
    IF format = "xml" THEN ElementsUpTo(MaxFileNodes)
    ELSE IF format = "json" THEN ValuesUpTo(JsonScalars, MaxFileNodes)
    ELSE ValuesUpTo(YamlScalars, MaxFileNodes)

\* The file's contents before the run, when it exists.
OldText == <<"o", "l", "d">>

\* read_and_validate_data: the parsed document (json.load, ET.parse(...)
\* .getroot(), yaml.safe_load), or None after any exception.
read_and_validate_data(file, file_format) ==
    IF file.kind = "ok" THEN file.doc ELSE None

Init ==
    /\ pc = "start"
    /\ input_format \in Formats
    /\ \/ \E kind \in ReadFailures : infile = [kind |-> kind, doc |-> None]
       \/ \E doc \in FileDocs(input_format) : infile = [kind |-> "ok", doc |-> doc]
    /\ mode \in {"gui", "cli"}
    /\ output_format \in Formats
    /\ outfile \in {<<>>, <<OldText>>}
    /\ input_data = None
    /\ data_for_conversion = None
    /\ write_success = FALSE
    /\ writers = <<>>
    /\ serialized = <<>>
    /\ finished = <<>>
    /\ exit_code = <<>>
    /\ call_tag = <<>>
    /\ call_arg = None
    /\ call_ret = <<>>
    /\ NoGui

\* The run ends without success: finished.emit(False, ...) / sys.exit(1).
Fail(message) ==
    /\ pc' = "done"
    /\ IF mode = "gui"
       THEN /\ finished' = Append(finished, [success |-> FALSE, message |-> message])
            /\ UNCHANGED exit_code
       ELSE /\ exit_code' = <<1>>
            /\ UNCHANGED finished

\* input_data = read_and_validate_data(input_path, input_format)
Read ==
    /\ pc = "start"
    /\ input_data' = read_and_validate_data(infile, input_format)
    /\ pc' = "read"
    /\ UNCHANGED <<mode, input_format, output_format, infile, outfile,
                   data_for_conversion, write_success, writers, serialized, finished,
                   exit_code, call_tag, call_arg, call_ret>>
    /\ UNCHANGED guiVars

\* The same step going on to the conversion although nothing was read.
ReadFailedIgnored ==
    /\ pc = "read"
    /\ input_data = None
    /\ data_for_conversion' = input_data
    /\ pc' = "converted"
    /\ UNCHANGED <<mode, input_format, output_format, infile, outfile, input_data,
                   write_success, writers, serialized, finished, exit_code, call_tag,
                   call_arg, call_ret>>
    /\ UNCHANGED guiVars

\* if input_data is None: report the failure and stop.
ReadFailed ==
    /\ pc = "read"
    /\ input_data = None
    /\ Fail("read")
    /\ UNCHANGED <<mode, input_format, output_format, infile, outfile, input_data,
                   data_for_conversion, write_success, writers, serialized, call_tag,
                   call_arg, call_ret>>
    /\ UNCHANGED guiVars

\* The value for the writer: an XML root is decoded, JSON and YAML data are
\* taken as they are.
Convert ==
    /\ pc = "read"
    /\ input_data # None
    /\ LET data == IF input_format = "xml" /\ isinstance(input_data, {"elem"})
                   THEN convert_xml_to_dict(input_data)
                   ELSE input_data
       IN  IF input_format = "xml" /\ (~isinstance(input_data, {"elem"}) \/ data = None)
           THEN /\ Fail("convert")
                /\ UNCHANGED data_for_conversion
           ELSE /\ data_for_conversion' = data
                /\ pc' = "converted"
                /\ UNCHANGED <<finished, exit_code>>
    /\ UNCHANGED <<mode, input_format, output_format, infile, outfile, input_data,
                   write_success, writers, serialized, call_tag, call_arg, call_ret>>
    /\ UNCHANGED guiVars

\* write_success = write_data_to_json(data_for_conversion, output_path)
WriteJson ==
    /\ pc = "converted"
    /\ output_format = "json"
    /\ LET r == write_data_to_json(data_for_conversion, outfile)
       IN  /\ write_success' = r.ret
           /\ outfile' = r.file
    /\ writers' = Append(writers, "write_data_to_json")
    /\ pc' = "written"
    /\ UNCHANGED <<mode, input_format, output_format, infile, input_data,
                   data_for_conversion, serialized, finished, exit_code, call_tag,
                   call_arg, call_ret>>
    /\ UNCHANGED guiVars

\* write_success = write_data_to_xml(data_for_conversion, output_path)
WriteXml ==
    /\ pc = "converted"
    /\ output_format = "xml"
    /\ LET r == write_data_to_xml(data_for_conversion, outfile)
       IN  /\ write_success' = r.ret
           /\ outfile' = r.file
           /\ serialized' = r.root
    /\ writers' = Append(writers, "write_data_to_xml")
    /\ pc' = "written"
    /\ UNCHANGED <<mode, input_format, output_format, infile, input_data,
                   data_for_conversion, finished, exit_code, call_tag, call_arg,
                   call_ret>>
    /\ UNCHANGED guiVars

\* write_success = write_data_to_yaml(data_for_conversion, output_path)
WriteYaml ==
    /\ pc = "converted"
    /\ output_format = "yaml"
    /\ LET r == write_data_to_yaml(data_for_conversion, outfile)
       IN  /\ write_success' = r.ret
           /\ outfile' = r.file
    /\ writers' = Append(writers, "write_data_to_yaml")
    /\ pc' = "written"
    /\ UNCHANGED <<mode, input_format, output_format, infile, input_data,
                   data_for_conversion, serialized, finished, exit_code, call_tag,
                   call_arg, call_ret>>
    /\ UNCHANGED guiVars

\* The outcome after the writer returned.
Finish ==
    /\ pc = "written"
    /\ IF write_success
       THEN /\ pc' = "done"
            /\ IF mode = "gui"
               THEN /\ finished' = Append(finished, [success |-> TRUE, message |-> "ok"])
                    /\ UNCHANGED exit_code
               ELSE /\ exit_code' = <<0>>
                    /\ UNCHANGED finished
       ELSE Fail("write")
    /\ UNCHANGED <<mode, input_format, output_format, infile, outfile, input_data,
                   data_for_conversion, write_success, writers, serialized, call_tag,
                   call_arg, call_ret>>
    /\ UNCHANGED guiVars

Next ==
    \/ Read
    \/ ReadFailed
    \/ Convert
    \/ WriteJson
    \/ WriteXml
    \/ WriteYaml
    \/ Finish

Spec == Init /\ [][Next]_vars

----------------------------------------------------------------------------
(* Claims about a conversion run (checked under Spec).                     *)

\* The run has ended without success: one finished(False, ...) in the
\* worker, exit code 1 on the command line.
FailureOutcome ==
    IF mode = "gui"
    THEN Len(finished) = 1 /\ ~finished[1].success /\ exit_code = <<>>
    ELSE exit_code = <<1>> /\ finished = <<>>

\* C6: in a run from xml to xml encoding is skipped: the element tree handed
\* to serialization is the parsed input element, unchanged.
C6_XmlToXmlPassThrough ==
    (/\ pc \in {"written", "done"}
     /\ infile.kind = "ok"
     /\ input_format = "xml"
     /\ output_format = "xml") => serialized = <<infile.doc>>

\* C7: a writer that returns False has left the output file as it was
\* before the call: nothing is opened or written before encoding succeeded.
C7_FailedWriterLeavesFile ==
    [][(writers' # writers /\ ~write_success') => outfile' = outfile]_vars

\* C8: when read_and_validate_data fails on the input, the run ends with a
\* failure outcome in its next step, no writer is ever invoked and the
\* output file is never created or modified.
C8_ReadFailureWritesNothing ==
    /\ [](infile.kind \in ReadFailures =>
              /\ writers = <<>>
              /\ pc = "done" => FailureOutcome)
    /\ [][infile.kind \in ReadFailures =>
              /\ outfile' = outfile
              /\ pc = "read" => pc' = "done"]_vars

\* A run on a malformed input has ended with exit code 1, the existing
\* output file untouched.
C8_Witness ==
    /\ pc = "done"
    /\ mode = "cli"
    /\ infile.kind = "malformed"
    /\ input_data = None
    /\ exit_code = <<1>>
    /\ writers = <<>>
    /\ outfile = <<OldText>>

\* C9: write_data_to_xml given a top-level scalar succeeds: it returns True
\* and writes a leaf root element whose text is the scalar's string form.
C9_TopLevelScalarToXml ==
    (/\ writers = <<"write_data_to_xml">>
     /\ Scalar(data_for_conversion)) =>
        /\ write_success
        /\ serialized # <<>>
        /\ serialized[1].children = <<>>
        /\ serialized[1].text = <<str(data_for_conversion)>>
        /\ outfile = <<toprettyxml(serialized[1])>>

\* C10: every syntactically valid JSON or YAML input, a null document
\* included, is passed on to the write stage.
C10_ValidInputReachesWriter ==
    (/\ pc = "done"
     /\ infile.kind = "ok"
     /\ input_format \in {"json", "yaml"}) => Len(writers) = 1

----------------------------------------------------------------------------
(* The desktop application: DataConverterApp and its ConverterWorker       *)
(* threads.                                                                *)
(*                                                                         *)
(* The main thread runs one handler at a time, but log_message calls       *)
(* QApplication.processEvents and a QMessageBox runs its own event loop,   *)
(* so a handler stopped at one of these points has further handlers        *)
(* dispatched on top of it: stack holds the handlers, each at the point    *)
(* where it waits.  A frame is [fn |-> handler, at |-> point].  A worker   *)
(* is [state, dropped, delivered]: state is "created", "started" (start()  *)
(* called, run not entered), "running", "emitted" (finished emitted) or    *)
(* "finished" (run returned, the thread ended); dropped says self.worker   *)
(* no longer refers to it; delivered says on_conversion_finished has been  *)
(* called for it.                                                          *)

Top == stack[Len(stack)]

Push(fn, at) == Append(stack, [fn |-> fn, at |-> at])

Pop == SubSeq(stack, 1, Len(stack) - 1)

Goto(at) == [stack EXCEPT ![Len(stack)].at = at]

\* The top handler is fn, waiting at the point at.
At(fn, at) == stack # <<>> /\ Top.fn = fn /\ Top.at = at

\* A QMessageBox is open: it is modal, the window takes no input.
Modal == \E i \in DOMAIN stack : stack[i].at \in {"warning", "result"}

ConverterWorker == [state |-> "created", dropped |-> FALSE, delivered |-> FALSE]

InitGui ==
    /\ pc = "gui"
    /\ call_tag = <<>>
    /\ call_arg = None
    /\ call_ret = <<>>
    /\ NoRun
    /\ NoGui

\* The user clicks the convert button.
Click ==
    /\ ~crashed
    /\ ~Modal
    /\ clicked < MaxClicks
    /\ clicks' = clicks + 1
    /\ clicked' = clicked + 1
    /\ UNCHANGED <<convert_btn, signals, stack, workers, worker, crashed>>
    /\ UNCHANGED conversionVars

\* A click reaches the button while it is disabled or a message box is
\* open: no clicked signal.
ignore_click ==
    /\ ~crashed
    /\ clicks > 0
    /\ ~convert_btn \/ Modal
    /\ clicks' = clicks - 1
    /\ UNCHANGED <<convert_btn, clicked, signals, stack, workers, worker, crashed>>
    /\ UNCHANGED conversionVars

\* clicked: perform_conversion clears the log and logs its first message;
\* log_message stops in processEvents.
perform_conversion ==
    /\ ~crashed
    /\ clicks > 0
    /\ convert_btn /\ ~Modal
    /\ clicks' = clicks - 1
    /\ stack' = Push("perform_conversion", "begun")
    /\ UNCHANGED <<convert_btn, clicked, signals, workers, worker, crashed>>
    /\ UNCHANGED conversionVars

\* The paths are read and checked: a warning box for a missing path or
\* input file, else the input file is logged.
check_paths ==
    /\ ~crashed
    /\ At("perform_conversion", "begun")
    /\ \E valid \in BOOLEAN :
           stack' = Goto(IF valid THEN "input_logged" ELSE "warning")
    /\ UNCHANGED <<convert_btn, clicks, clicked, signals, workers, worker, crashed>>
    /\ UNCHANGED conversionVars

\* The user closes the warning box; the error is logged.
log_path_error ==
    /\ ~crashed
    /\ At("perform_conversion", "warning")
    /\ stack' = Goto("error_logged")
    /\ UNCHANGED <<convert_btn, clicks, clicked, signals, workers, worker, crashed>>
    /\ UNCHANGED conversionVars

\* return after the logged error.
return_path_error ==
    /\ ~crashed
    /\ At("perform_conversion", "error_logged")
    /\ stack' = Pop
    /\ UNCHANGED <<convert_btn, clicks, clicked, signals, workers, worker, crashed>>
    /\ UNCHANGED conversionVars

\* The output file is logged.
log_output_file ==
    /\ ~crashed
    /\ At("perform_conversion", "input_logged")
    /\ stack' = Goto("output_logged")
    /\ UNCHANGED <<convert_btn, clicks, clicked, signals, workers, worker, crashed>>
    /\ UNCHANGED conversionVars

\* Signals in the queue that were not emitted by worker w.
SignalsNotOf(w) ==
    SelectSeq(signals, LAMBDA e : e.w # w)

\* The button is disabled, a ConverterWorker is created and assigned to
\* self.worker, its signals are connected and it is started.  The
\* assignment drops the only reference to the previous worker: a QThread
\* that was started and has not entered run is destroyed while running,
\* which aborts the process; one inside run is kept alive by run's frame
\* until run returns; one that has ended is destroyed, and its signals
\* still queued are delivered or not.
start_worker ==
    /\ ~crashed
    /\ At("perform_conversion", "output_logged")
    /\ convert_btn' = FALSE
    /\ worker' = Len(workers) + 1
    /\ IF worker # 0 /\ workers[worker].state = "started"
       THEN /\ workers' = Append(workers, ConverterWorker)
            /\ crashed' = TRUE
            /\ UNCHANGED <<signals, stack>>
       ELSE /\ workers' = Append(IF worker = 0
                                 THEN workers
                                 ELSE [workers EXCEPT ![worker].dropped = TRUE],
                                 [ConverterWorker EXCEPT !.state = "started"])
            /\ signals' \in IF worker # 0 /\ workers[worker].state = "finished"
                            THEN {signals, SignalsNotOf(worker)}
                            ELSE {signals}
            /\ stack' = Pop
            /\ UNCHANGED crashed
    /\ UNCHANGED <<clicks, clicked>>
    /\ UNCHANGED conversionVars

\* The worker thread enters run and emits progress.
run_progress(w) ==
    /\ ~crashed
    /\ workers[w].state = "started"
    /\ workers' = [workers EXCEPT ![w].state = "running"]
    /\ signals' = Append(signals, [w |-> w, sig |-> "progress", success |-> FALSE])
    /\ UNCHANGED <<convert_btn, clicks, clicked, stack, worker, crashed>>
    /\ UNCHANGED conversionVars

\* run reads, converts and writes, and emits finished with the outcome.
run_finished(w) ==
    /\ ~crashed
    /\ workers[w].state = "running"
    /\ workers' = [workers EXCEPT ![w].state = "emitted"]
    /\ \E success \in BOOLEAN :
           signals' = Append(signals, [w |-> w, sig |-> "finished", success |-> success])
    /\ UNCHANGED <<convert_btn, clicks, clicked, stack, worker, crashed>>
    /\ UNCHANGED conversionVars

\* run returns and the thread ends.  A worker that self.worker dropped has
\* lost its last reference now: the QThread is destroyed from inside its
\* own running thread, which aborts the process.
run_return(w) ==
    /\ ~crashed
    /\ workers[w].state = "emitted"
    /\ IF workers[w].dropped
       THEN crashed' = TRUE /\ UNCHANGED workers
       ELSE workers' = [workers EXCEPT ![w].state = "finished"] /\ UNCHANGED crashed
    /\ UNCHANGED <<convert_btn, clicks, clicked, signals, stack, worker>>
    /\ UNCHANGED conversionVars

\* progress is delivered: log_message appends and stops in processEvents.
log_message ==
    /\ ~crashed
    /\ signals # <<>>
    /\ Head(signals).sig = "progress"
    /\ signals' = Tail(signals)
    /\ stack' = Push("log_message", "logged")
    /\ UNCHANGED <<convert_btn, clicks, clicked, workers, worker, crashed>>
    /\ UNCHANGED conversionVars

\* processEvents returns and so does log_message.
log_message_return ==
    /\ ~crashed
    /\ At("log_message", "logged")
    /\ stack' = Pop
    /\ UNCHANGED <<convert_btn, clicks, clicked, signals, workers, worker, crashed>>
    /\ UNCHANGED conversionVars

\* finished is delivered: on_conversion_finished enables the button and logs
\* the message.
on_conversion_finished ==
    /\ ~crashed
    /\ signals # <<>>
    /\ Head(signals).sig = "finished"
    /\ signals' = Tail(signals)
    /\ convert_btn' = TRUE
    /\ workers' = [workers EXCEPT ![Head(signals).w].delivered = TRUE]
    /\ stack' = Push("on_conversion_finished", "logged")
    /\ UNCHANGED <<clicks, clicked, worker, crashed>>
    /\ UNCHANGED conversionVars

\* The message box with the outcome opens.
show_result ==
    /\ ~crashed
    /\ At("on_conversion_finished", "logged")
    /\ stack' = Goto("result")
    /\ UNCHANGED <<convert_btn, clicks, clicked, signals, workers, worker, crashed>>
    /\ UNCHANGED conversionVars

\* The user closes the box and on_conversion_finished returns.
close_result ==
    /\ ~crashed
    /\ At("on_conversion_finished", "result")
    /\ stack' = Pop
    /\ UNCHANGED <<convert_btn, clicks, clicked, signals, workers, worker, crashed>>
    /\ UNCHANGED conversionVars

\* What the user does.
User ==
    \/ Click
    \/ log_path_error
    \/ close_result

\* What the main thread does by itself.
MainThread ==
    \/ ignore_click
    \/ perform_conversion
    \/ check_paths
    \/ return_path_error
    \/ log_output_file
    \/ start_worker
    \/ log_message
    \/ log_message_return
    \/ on_conversion_finished
    \/ show_result

\* What the worker threads do.
WorkerThreads ==
    \/ \E w \in DOMAIN workers : run_progress(w)
    \/ \E w \in DOMAIN workers : run_finished(w)
    \/ \E w \in DOMAIN workers : run_return(w)

NextGui ==
    \/ User
    \/ MainThread
    \/ WorkerThreads

SpecGui == InitGui /\ [][NextGui]_vars

\* The event loop keeps dispatching and the threads keep running; the user
\* need not do anything.
FairSpecGui ==
    /\ SpecGui
    /\ WF_vars(MainThread)
    /\ WF_vars(WorkerThreads)

----------------------------------------------------------------------------
(* Claims about the desktop application.                                   *)

\* C11: at most one ConverterWorker is running at any time: when a worker
\* is created, the finished signal of every earlier worker has been
\* delivered.
C11_OneWorkerAtATime ==
    \A w \in DOMAIN workers : w < Len(workers) => workers[w].delivered

\* Unless the process is aborted, the disabled button is enabled again.
ButtonEnabledAgainOrCrashed ==
    (~convert_btn) ~> (convert_btn \/ crashed)

\* A finished run of the worker (checked under Spec) has emitted finished
\* once, with success only after a writer that returned True.
RunEmitsFinishedOnce ==
    (mode = "gui" /\ pc = "done") =>
        /\ Len(finished) = 1
        /\ finished[1].success => (Len(writers) = 1 /\ write_success)

\* The n-th worker was started and has not emitted finished.
Started(n) ==
    IF n <= Len(workers) THEN workers[n].state \in {"started", "running"} ELSE FALSE

\* The n-th worker has emitted finished.
Emitted(n) ==
    IF n <= Len(workers) THEN workers[n].state \in {"emitted", "finished"} ELSE FALSE

\* C12: every worker that was started emits finished, once, and the button
\* disabled by perform_conversion is enabled again by
\* on_conversion_finished.
C12_ButtonEnabledAgain ==
    /\ (~convert_btn) ~> convert_btn
    /\ \A n \in 1..MaxClicks :
           Started(n) ~> Emitted(n)

====
